---- MODULE Spec2Model ----
(***************************************************************************)
(* A model of prunefiles (src/prunefiles/app.py): the command prune_files  *)
(* classifies the regular files of one directory by an optional name       *)
(* pattern, sorts them by a key, marks the files two limiters do not keep  *)
(* and deletes (or, with --dry-run, only reports) the marked files.        *)
(*                                                                         *)
(* Strings whose content matters (file names, stems, captured fields) are  *)
(* sequences of character codes, compared as Python compares str values.   *)
(* An optional argument is <<>> (None) or <<v>>.                           *)
(***************************************************************************)
EXTENDS Integers, Sequences, FiniteSets, TLC

VARIABLES args, disk, disk0, pc, limiters, matcher, files, excluded, keep,
          remove, li, ri, io, inorder, run, prev

vars == <<args, disk, disk0, pc, limiters, matcher, files, excluded, keep,
          remove, li, ri, io, inorder, run, prev>>

---------------------------------------------------------------------------
(* Bounds of the model.                                                    *)

MaxFiles == 3
MaxSize == 1
MaxKeepCount == 2
MaxKeepSize == 1

---------------------------------------------------------------------------
(* Character codes and the file names of the model's directories.          *)

\* ord() of the characters the file names are made of.
Ch == [dot |-> 46, L |-> 76, a |-> 97, b |-> 98, l |-> 108, t |-> 116]

\* "a.l", "a.t", "ab.l", "b.L"
Names ==
    { <<Ch.a, Ch.dot, Ch.l>>, <<Ch.a, Ch.dot, Ch.t>>,
      <<Ch.a, Ch.b, Ch.dot, Ch.l>>, <<Ch.b, Ch.dot, Ch.L>> }

\* The pattern of the model, as a regular expression (?P<n>.).*\.l : one
\* named field n holding the first character, then anything, then ".l".
ThePattern == [head |-> 1, tail |-> <<Ch.dot, Ch.l>>, fields |-> {"n"}]

None == <<>>

Some(v) == <<v>>

Max2(a, b) == IF a > b THEN a ELSE b

Min2(a, b) == IF a < b THEN a ELSE b

\* Python's str < str: lexicographic by code point, a proper prefix first.
RECURSIVE StrLess(_, _)
StrLess(a, b) ==
    IF b = <<>> THEN FALSE
    ELSE IF a = <<>> THEN TRUE
    ELSE IF a[1] # b[1] THEN a[1] < b[1]
    ELSE StrLess(Tail(a), Tail(b))

\* str.lower() on one character (ASCII).
Lower(c) == IF c >= 65 /\ c <= 90 THEN c + 32 ELSE c

LowerStr(s) == [i \in 1..Len(s) |-> Lower(s[i])]

\* pathlib's PurePath.stem: the name without its last suffix; a dot that is
\* the first or the last character starts no suffix.
Stem(name) ==
    LET dots == {i \in 1..Len(name) : name[i] = Ch.dot}
        last == IF dots = {} THEN 0 ELSE CHOOSE i \in dots : \A j \in dots : j <= i
    IN  IF last > 1 /\ last < Len(name) THEN SubSeq(name, 1, last - 1) ELSE name

---------------------------------------------------------------------------
(* Matchers.                                                               *)

\* bool(x) of an optional argument that, when given, is a non-empty string.
Truthy(opt) == opt # None

\* A matcher that tests only the start of the name (re.match in place of
\* fullmatch): the tail of the pattern is not compared.
MatchNamePrefix(m, name) ==
    IF Len(name) >= m.pattern.head
    THEN Some([f \in m.pattern.fields |-> SubSeq(name, 1, m.pattern.head)])
    ELSE None

\* ParseMatcher.match / RegexMatcher.match: the match result, None when the
\* whole name does not conform. The result holds the named captures as the
\* text of the name (a function from field name to string).
MatchName(m, name) ==
    LET p == m.pattern
        fold(s) == IF m.case_sensitive THEN s ELSE LowerStr(s)
        n == Len(name)
        t == Len(p.tail)
    IN  IF n >= p.head + t /\ fold(SubSeq(name, n - t + 1, n)) = fold(p.tail)
        THEN Some([f \in p.fields |-> SubSeq(name, 1, p.head)])
        ELSE None

\* ParseMatcher.get_value / RegexMatcher.get_value: the named capture. The
\* lookup of a name the pattern does not define raises (KeyError, IndexError).
HasField(result, name) == name \in DOMAIN result

get_value(result, name) == result[name]

---------------------------------------------------------------------------
(* _PathState and the limiters.                                            *)

\* _PathState.__init__: size is a cached property, not read yet.
PathState(name) ==
    [name |-> name, orderby |-> Stem(name), is_match |-> TRUE,
     prune_reasons |-> <<>>, size |-> None]

\* The reason strings f'keep-count <= {keep_count}', f'keep-size <= {keep_size}'.
CountReason(k) == <<"keep-count <=", k, "">>

SizeReason(s) == <<"keep-size <=", s.num, s.unit>>

\* humanfriendly.parse_size: None stands for InvalidSize.
ParseSize(s) ==
    IF s.unit = "B" THEN Some(s.num)
    ELSE IF s.unit = "KB" THEN Some(s.num * 1000)
    ELSE None

\* The stop index of the Python slice seq[:stop] on a list of length n.
SliceStop(n, stop) == IF stop < 0 THEN Max2(n + stop, 0) ELSE Min2(stop, n)

\* A count limiter that marks files[max_count:], keeping the first files.
CountLimiterApplyTail(fs, max_count, reason) ==
    [i \in 1..Len(fs) |->
        IF i > max_count
        THEN [fs[i] EXCEPT !.prune_reasons = Append(@, reason)]
        ELSE fs[i]]

\* A count limiter that marks files[:max_count], max_count files whatever
\* the length of the list.
CountLimiterApplyHead(fs, max_count, reason) ==
    [i \in 1..Len(fs) |->
        IF i <= max_count
        THEN [fs[i] EXCEPT !.prune_reasons = Append(@, reason)]
        ELSE fs[i]]

\* CountLimiter.apply: the reason is appended to files[:-max_count].
CountLimiterApply(fs, max_count, reason) ==
    [i \in 1..Len(fs) |->
        IF i <= SliceStop(Len(fs), 0 - max_count)
        THEN [fs[i] EXCEPT !.prune_reasons = Append(@, reason)]
        ELSE fs[i]]

\* _PathState.size: the cached value, or the file's size on the disk.
SizeOf(f, d) == IF f.size # None THEN f.size[1] ELSE d[f.name]

\* The running total of SizeLimiter.apply when the loop reaches files[i].
RECURSIVE SumFrom(_, _, _)
SumFrom(fs, d, i) ==
    IF i > Len(fs) THEN 0 ELSE SizeOf(fs[i], d) + SumFrom(fs, d, i + 1)

\* A test that also rejects a total equal to the budget.
OverBudgetOrEqual(total, max_size) == total >= max_size

\* The test of SizeLimiter.apply.
OverBudget(total, max_size) == total > max_size

\* SizeLimiter.apply: walks reversed(files), reads every size, and appends
\* the reason to each file at which the running total exceeds max_size.
SizeLimiterApply(fs, d, max_size, reason) ==
    [i \in 1..Len(fs) |->
        LET f == [fs[i] EXCEPT !.size = Some(SizeOf(fs[i], d))]
        IN  IF OverBudget(SumFrom(fs, d, i), max_size)
            THEN [f EXCEPT !.prune_reasons = Append(@, reason)]
            ELSE f]

---------------------------------------------------------------------------
(* list.sort: stable, and stable too with reverse=True.                    *)

KeyLess(kind, a, b) ==
    IF kind = "name" THEN StrLess(a.name, b.name)
    ELSE IF kind = "orderby" THEN StrLess(a.orderby, b.orderby)
    ELSE StrLess(b.orderby, a.orderby)

\* x goes after every element that does not sort after it.
InsertStable(kind, sorted, x) ==
    LET later == {i \in 1..Len(sorted) : KeyLess(kind, x, sorted[i])}
        at == IF later = {} THEN Len(sorted) + 1
              ELSE CHOOSE i \in later : \A j \in later : i <= j
    IN  SubSeq(sorted, 1, at - 1) \o <<x>> \o SubSeq(sorted, at, Len(sorted))

RECURSIVE StableSort(_, _, _)
StableSort(kind, todo, sorted) ==
    IF todo = <<>> THEN sorted
    ELSE StableSort(kind, Tail(todo), InsertStable(kind, sorted, Head(todo)))

\* No sort by name: the files stay in the order of the listing.
KeepListingOrder(fs) == fs

\* files.sort(key=lambda x: x.path.name)
SortByName(fs) == StableSort("name", fs, <<>>)

\* files.sort(key=lambda x: x.orderby, reverse=order_reverse)
SortByOrderby(fs, reverse) ==
    StableSort(IF reverse THEN "orderby_reverse" ELSE "orderby", fs, <<>>)

\* The tests of the list comprehensions over files.
Holds(test, f) ==
    IF test = "is_match" THEN f.is_match
    ELSE IF test = "not is_match" THEN ~f.is_match
    ELSE IF test = "prune_reasons" THEN f.prune_reasons # <<>>
    ELSE f.prune_reasons = <<>>

\* [x for x in fs if test(x)]
RECURSIVE Filter(_, _)
Filter(fs, test) ==
    IF fs = <<>> THEN <<>>
    ELSE IF Holds(test, Head(fs)) THEN <<Head(fs)>> \o Filter(Tail(fs), test)
    ELSE Filter(Tail(fs), test)

---------------------------------------------------------------------------
(* The command line and the directory.                                     *)

KeepCountArgs == {None} \cup {Some(k) : k \in 0..MaxKeepCount}

\* "0B", "1B", ..., and "1XB", which is no size.
KeepSizeArgs ==
    {None} \cup {Some([num |-> n, unit |-> "B"]) : n \in 0..MaxKeepSize}
           \cup {Some([num |-> 1, unit |-> "XB"])}

FormatArgs == {None, Some(ThePattern)}

RegexArgs == {None, Some(ThePattern)}

OrderbyArgs == {None, Some("n"), Some("x")}

Args ==
    [match_format : FormatArgs, match_regex : RegexArgs,
     match_case_sensitive : BOOLEAN, orderby : OrderbyArgs,
     order_reverse : BOOLEAN, keep_count : KeepCountArgs,
     keep_size : KeepSizeArgs, dry_run : BOOLEAN]

\* The directories: up to MaxFiles regular files, each with its size.
Disks ==
    UNION {[S -> 0..MaxSize] : S \in {T \in SUBSET Names : Cardinality(T) <= MaxFiles}}

\* The orders in which folder.iterdir() may yield the entries named in S.
RECURSIVE Orders(_)
Orders(S) ==
    IF S = {} THEN {<<>>}
    ELSE UNION {{<<x>> \o rest : rest \in Orders(S \ {x})} : x \in S}

Listings(d) == Orders(DOMAIN d)

NoIO == [listed |-> FALSE, statted |-> {}, unlinked |-> {}]

Init ==
    /\ args \in Args
    /\ disk \in Disks
    /\ disk0 = disk
    /\ pc = "start"
    /\ limiters = <<>>
    /\ matcher = None
    /\ files = <<>>
    /\ excluded = <<>>
    /\ keep = <<>>
    /\ remove = <<>>
    /\ li = 1
    /\ ri = 1
    /\ io = NoIO
    /\ inorder = TRUE
    /\ run = 1
    /\ prev = None

---------------------------------------------------------------------------
(* prune_files, step by step.                                              *)

\* A check that lets keep-count 0 through.
KeepCountNonNegative(k) == k >= 0

\* keep_count > 0
KeepCountOk(k) == k > 0

\* The limiters list with the size limiter first.
MakeLimitersSizeFirst(a) ==
    (IF a.keep_size # None /\ ParseSize(a.keep_size[1]) # None
     THEN <<[kind |-> "size", max |-> ParseSize(a.keep_size[1])[1],
             reason |-> SizeReason(a.keep_size[1])]>>
     ELSE <<>>)
    \o
    (IF a.keep_count # None
     THEN <<[kind |-> "count", max |-> a.keep_count[1],
             reason |-> CountReason(a.keep_count[1])]>>
     ELSE <<>>)

\* The limiters list: the count limiter first, then the size limiter.
MakeLimiters(a) ==
    (IF a.keep_count # None
     THEN <<[kind |-> "count", max |-> a.keep_count[1],
             reason |-> CountReason(a.keep_count[1])]>>
     ELSE <<>>)
    \o
    (IF a.keep_size # None /\ ParseSize(a.keep_size[1]) # None
     THEN <<[kind |-> "size", max |-> ParseSize(a.keep_size[1])[1],
             reason |-> SizeReason(a.keep_size[1])]>>
     ELSE <<>>)

\* The matcher the arguments select.
MakeMatcher(a) ==
    IF Truthy(a.match_format)
    THEN Some([kind |-> "parse", pattern |-> a.match_format[1],
               case_sensitive |-> a.match_case_sensitive])
    ELSE IF Truthy(a.match_regex)
    THEN Some([kind |-> "regex", pattern |-> a.match_regex[1],
               case_sensitive |-> a.match_case_sensitive])
    ELSE None

\* The argument checks that end in typer.Exit(1).
ArgsRejected(a) ==
    \/ a.keep_count # None /\ ~KeepCountOk(a.keep_count[1])
    \/ a.keep_size # None /\ ParseSize(a.keep_size[1]) = None
    \/ Truthy(a.match_regex) /\ Truthy(a.match_format)

CheckArgs ==
    /\ pc = "start"
    /\ IF ArgsRejected(args)
       THEN /\ pc' = "exit1"
            /\ UNCHANGED <<limiters, matcher>>
       ELSE /\ pc' = "collect"
            /\ limiters' = MakeLimiters(args)
            /\ matcher' = MakeMatcher(args)
    /\ UNCHANGED <<args, disk, disk0, files, excluded, keep, remove, li, ri,
                   io, inorder, run, prev>>

IsNameSorted(s) == \A i \in 1..(Len(s) - 1) : StrLess(s[i], s[i + 1])

\* [_PathState(path) for path in folder.iterdir() if path.is_file()]
Collected(listing) == [i \in 1..Len(listing) |-> PathState(listing[i])]

\* The loop over the files when no get_value raises: is_match and orderby.
ApplyMatcher(fs, m, orderby) ==
    [i \in 1..Len(fs) |->
        LET r == MatchName(m, fs[i].name)
        IN  IF r # None
            THEN [fs[i] EXCEPT !.is_match = TRUE,
                               !.orderby = IF orderby # None
                                           THEN get_value(r[1], orderby[1])
                                           ELSE @]
            ELSE [fs[i] EXCEPT !.is_match = FALSE]]

\* The files at which matcher.get_value raises.
Raising(fs, m, orderby) ==
    {i \in 1..Len(fs) :
        /\ orderby # None
        /\ MatchName(m, fs[i].name) # None
        /\ ~HasField(MatchName(m, fs[i].name)[1], orderby[1])}

\* The files are collected in the order iterdir() yields them and sorted by
\* name; the matcher sets is_match and orderby; the files that do not match
\* are reported as excluded and dropped. With observe, inorder records
\* whether iterdir() yielded the names in ascending order.
CollectFiles(observe) ==
    /\ pc = "collect"
    /\ \E listing \in Listings(disk) :
       \E sorted \in {SortByName(Collected(listing))} :
       \E bad \in {IF matcher = None THEN {}
                   ELSE Raising(sorted, matcher[1], args.orderby)} :
          /\ inorder' = IF observe THEN IsNameSorted(listing) ELSE inorder
          /\ IF bad # {}
             THEN LET first == CHOOSE i \in bad : \A j \in bad : i <= j
                  IN  /\ files' = [i \in 1..Len(sorted) |->
                                      IF i < first
                                      THEN [sorted[i] EXCEPT !.is_match = FALSE]
                                      ELSE sorted[i]]
                      /\ pc' = "lookup_raised"
                      /\ UNCHANGED excluded
             ELSE \E marked \in {IF matcher = None THEN sorted
                                 ELSE ApplyMatcher(sorted, matcher[1], args.orderby)} :
                      /\ excluded' = Filter(marked, "not is_match")
                      /\ files' = Filter(marked, "is_match")
                      /\ pc' = "sort"
    /\ io' = [io EXCEPT !.listed = TRUE]
    /\ UNCHANGED <<args, disk, disk0, limiters, matcher, keep, remove, li, ri,
                   run, prev>>

CollectStep == CollectFiles(FALSE)

\* The same step, with the order of the listing recorded.
CollectObserved == CollectFiles(TRUE)

SortStep ==
    /\ pc = "sort"
    /\ files' = SortByOrderby(files, args.order_reverse)
    /\ li' = 1
    /\ pc' = "prune"
    /\ UNCHANGED <<args, disk, disk0, limiters, matcher, excluded, keep,
                   remove, ri, io, inorder, run, prev>>

\* limiter.apply(files) for the next limiter of the list.
ApplyLimiter ==
    /\ pc = "prune"
    /\ li <= Len(limiters)
    /\ LET l == limiters[li]
       IN  IF l.kind = "count"
           THEN /\ files' = CountLimiterApply(files, l.max, l.reason)
                /\ UNCHANGED io
           ELSE /\ files' = SizeLimiterApply(files, disk, l.max, l.reason)
                /\ io' = [io EXCEPT !.statted =
                              @ \cup {files[i].name : i \in 1..Len(files)}]
    /\ li' = li + 1
    /\ UNCHANGED <<args, disk, disk0, pc, limiters, matcher, excluded, keep,
                   remove, ri, inorder, run, prev>>

\* keep := [x for x in files if not x.prune_reasons]
KeepGroup(fs) == Filter(fs, "not prune_reasons")

\* A remove group of the files with exactly one reason.
RECURSIVE RemoveGroupSingleReason(_)
RemoveGroupSingleReason(fs) ==
    IF fs = <<>> THEN <<>>
    ELSE IF Len(Head(fs).prune_reasons) = 1
    THEN <<Head(fs)>> \o RemoveGroupSingleReason(Tail(fs))
    ELSE RemoveGroupSingleReason(Tail(fs))

\* remove := [x for x in files if x.prune_reasons]
RemoveGroup(fs) == Filter(fs, "prune_reasons")

\* keep and remove, once every limiter has run.
Partition ==
    /\ pc = "prune"
    /\ li > Len(limiters)
    /\ keep' = KeepGroup(files)
    /\ remove' = RemoveGroup(files)
    /\ ri' = 1
    /\ pc' = IF remove' = <<>> THEN "done" ELSE "remove"
    /\ UNCHANGED <<args, disk, disk0, limiters, matcher, files, excluded, li,
                   io, inorder, run, prev>>

AfterRemove == IF ri = Len(remove) THEN "done" ELSE "remove"

\* A dry run that deletes the file all the same.
SkipRemoveUnlinks ==
    /\ pc = "remove"
    /\ args.dry_run
    /\ disk' = [n \in DOMAIN disk \ {remove[ri].name} |-> disk[n]]
    /\ io' = [io EXCEPT !.unlinked = @ \cup {remove[ri].name}]
    /\ ri' = ri + 1
    /\ pc' = IF ri = Len(remove) THEN "done" ELSE "remove"
    /\ UNCHANGED <<args, disk0, limiters, matcher, files, excluded, keep,
                   remove, li, inorder, run, prev>>

\* 'Skipped by --dry-run'
SkipRemove ==
    /\ pc = "remove"
    /\ args.dry_run
    /\ ri' = ri + 1
    /\ pc' = AfterRemove
    /\ UNCHANGED <<args, disk, disk0, limiters, matcher, files, excluded,
                   keep, remove, li, io, inorder, run, prev>>

\* file.path.unlink() succeeds.
Unlink ==
    /\ pc = "remove"
    /\ ~args.dry_run
    /\ disk' = [n \in DOMAIN disk \ {remove[ri].name} |-> disk[n]]
    /\ io' = [io EXCEPT !.unlinked = @ \cup {remove[ri].name}]
    /\ ri' = ri + 1
    /\ pc' = AfterRemove
    /\ UNCHANGED <<args, disk0, limiters, matcher, files, excluded, keep,
                   remove, li, inorder, run, prev>>

\* file.path.unlink() raises OSError: the command ends there.
UnlinkFails ==
    /\ pc = "remove"
    /\ ~args.dry_run
    /\ pc' = "unlink_raised"
    /\ UNCHANGED <<args, disk, disk0, limiters, matcher, files, excluded,
                   keep, remove, li, ri, io, inorder, run, prev>>

\* What a run reports of a file.
Report(f) == [name |-> f.name, orderby |-> f.orderby, reasons |-> f.prune_reasons]

Reports(fs) == [i \in 1..Len(fs) |-> Report(fs[i])]

Outcome ==
    [excluded |-> Reports(excluded), keep |-> Reports(keep),
     remove |-> Reports(remove)]

\* The same command is run again on the directory as the run left it; after
\* a dry run, with or without --dry-run.
Rerun ==
    /\ pc = "done"
    /\ run = 1
    /\ run' = 2
    /\ prev' = Some([outcome |-> Outcome, disk0 |-> disk0,
                     dry_run |-> args.dry_run, inorder |-> inorder])
    /\ \E dry \in (IF args.dry_run THEN BOOLEAN ELSE {FALSE}) :
          args' = [args EXCEPT !.dry_run = dry]
    /\ disk0' = disk
    /\ pc' = "start"
    /\ limiters' = <<>>
    /\ matcher' = None
    /\ files' = <<>>
    /\ excluded' = <<>>
    /\ keep' = <<>>
    /\ remove' = <<>>
    /\ li' = 1
    /\ ri' = 1
    /\ io' = NoIO
    /\ inorder' = TRUE
    /\ UNCHANGED disk

Next ==
    \/ CheckArgs
    \/ CollectStep
    \/ SortStep
    \/ ApplyLimiter
    \/ Partition
    \/ SkipRemove
    \/ Unlink
    \/ UnlinkFails

Spec == Init /\ [][Next]_vars

\* The runs that are repeated: the arguments pass the checks; the pattern,
\* if any, is given as --match-regex and without --match-case-sensitive;
\* orderby, if given, names the pattern's field.
InitRerun ==
    /\ Init
    /\ ~ArgsRejected(args)
    /\ args.match_format = None
    /\ ~args.match_case_sensitive
    /\ args.orderby # Some("x")

NextRerun ==
    \/ CheckArgs
    \/ CollectObserved
    \/ SortStep
    \/ ApplyLimiter
    \/ Partition
    \/ SkipRemove
    \/ Unlink
    \/ UnlinkFails
    \/ Rerun

SpecRerun == InitRerun /\ [][NextRerun]_vars

---------------------------------------------------------------------------
(* What the claims speak of.                                               *)

\* The sort has run: files is the sorted list of the matched files.
PostSort == pc \in {"prune", "remove", "done", "unlink_raised"}

\* keep and remove are computed.
Partitioned == pc \in {"remove", "done", "unlink_raised"}

\* The limiter of this kind is configured and has run.
Applied(kind) ==
    /\ PostSort
    /\ \E i \in 1..Len(limiters) : limiters[i].kind = kind /\ i < li

MaxOf(kind) ==
    LET i == CHOOSE j \in 1..Len(limiters) : limiters[j].kind = kind
    IN  limiters[i].max

\* How often a reason stands in the prune_reasons of a file.
Times(f, reason) ==
    Cardinality({j \in 1..Len(f.prune_reasons) : f.prune_reasons[j] = reason})

RECURSIVE SeqSum(_)
SeqSum(s) == IF s = <<>> THEN 0 ELSE Head(s) + SeqSum(Tail(s))

\* The bytes, in the directory the run started on, of files[i], ..., files[N].
TailBytes(i) ==
    SeqSum([k \in 1..(Len(files) - i + 1) |-> disk0[files[i + k - 1].name]])

NamesOf(fs) == {fs[i].name : i \in 1..Len(fs)}

\* The files the count limiter, and the size limiter, marks when alone.
CountAlone(i) == i <= Len(files) - MaxOf("count")

SizeAlone(i) == TailBytes(i) > MaxOf("size")

TheCountReason == CountReason(args.keep_count[1])

TheSizeReason == SizeReason(args.keep_size[1])

CountMarked == {i \in 1..Len(files) : Times(files[i], TheCountReason) > 0}

\* The first index of the longest suffix of files within the size budget.
SuffixStart ==
    CHOOSE j \in 1..(Len(files) + 1) :
        /\ TailBytes(j) <= MaxOf("size")
        /\ \A k \in 1..(j - 1) : TailBytes(k) > MaxOf("size")

\* A configuration error, as the command line documents it.
BadArgs ==
    \/ args.keep_count # None /\ args.keep_count[1] <= 0
    \/ args.keep_size # None /\ ParseSize(args.keep_size[1]) = None
    \/ args.match_format # None /\ args.match_regex # None

\* The pattern the arguments configure, if any.
ConfiguredPattern ==
    IF args.match_format # None THEN args.match_format
    ELSE args.match_regex

\* The whole name is one character, anything, and then the pattern's tail,
\* letters compared without case unless --match-case-sensitive is given.
SameChar(a, b) == a = b \/ (~args.match_case_sensitive /\ Lower(a) = Lower(b))

WholeNameMatches(name) ==
    LET p == ConfiguredPattern[1]
        t == Len(p.tail)
    IN  \E mid \in 0..Len(name) :
            /\ Len(name) = p.head + mid + t
            /\ \A j \in 1..t : SameChar(name[p.head + mid + j], p.tail[j])

ShouldExclude(name) == ConfiguredPattern # None /\ ~WholeNameMatches(name)

---------------------------------------------------------------------------
(* The claims.                                                             *)

\* C1, as stated: once the count limiter has run with keep-count K on N
\* matched files, it has marked no file if K >= N, and exactly N - K files
\* if K < N, none of which has a larger orderby than a file it left unmarked
\* (the marked files are the N - K smallest), with order-reverse set or not.
C1_SmallestPruned ==
    Applied("count") =>
        LET K == MaxOf("count")
            N == Len(files)
        IN  /\ K >= N => CountMarked = {}
            /\ K < N =>
                /\ Cardinality(CountMarked) = N - K
                /\ \A m \in CountMarked : \A u \in (1..N) \ CountMarked :
                       ~StrLess(files[u].orderby, files[m].orderby)

\* C1, amended: the count limiter marks no file if K >= N, and if K < N it
\* marks, once each, exactly the N - K files that come first in the sorted
\* list: the smallest orderby values without order-reverse, the largest
\* with it.
C1_FirstSortedPruned ==
    Applied("count") =>
        LET K == MaxOf("count")
            N == Len(files)
        IN  /\ K >= N => CountMarked = {}
            /\ K < N => CountMarked = 1..(N - K)
            /\ \A i \in 1..N : Times(files[i], TheCountReason) <= 1
            /\ \A m \in CountMarked : \A u \in (1..N) \ CountMarked :
                   IF args.order_reverse
                   THEN ~StrLess(files[m].orderby, files[u].orderby)
                   ELSE ~StrLess(files[u].orderby, files[m].orderby)

\* C1's case: order-reverse is set, fewer files are kept than matched, and a
\* marked file has a larger orderby than an unmarked one.
C1_Witness ==
    /\ Applied("count")
    /\ args.order_reverse
    /\ \E m \in CountMarked : \E u \in (1..Len(files)) \ CountMarked :
           StrLess(files[u].orderby, files[m].orderby)

\* C2: once the size limiter has run, the files without its reason are the
\* longest suffix of the sorted list whose sizes sum to at most the budget,
\* and every file before that suffix has the reason exactly once.
C2_LongestSuffixKept ==
    Applied("size") =>
        \A start \in {SuffixStart} : \A i \in 1..Len(files) :
            Times(files[i], TheSizeReason) = (IF i < start THEN 1 ELSE 0)

\* C2's case: a file of size 0 is marked before a kept suffix that fills
\* the budget exactly.
C2_Witness ==
    /\ Applied("size")
    /\ MaxOf("size") > 0
    /\ SuffixStart <= Len(files)
    /\ TailBytes(SuffixStart) = MaxOf("size")
    /\ \E i \in 1..Len(files) :
           /\ disk0[files[i].name] = 0
           /\ Times(files[i], TheSizeReason) = 1

\* C3: a run that completes has put every file of the directory in exactly
\* one of the groups excluded, keep and remove.
C3_Partition ==
    pc = "done" =>
        /\ NamesOf(excluded) \cup NamesOf(keep) \cup NamesOf(remove) = DOMAIN disk0
        /\ NamesOf(excluded) \cap NamesOf(keep) = {}
        /\ NamesOf(excluded) \cap NamesOf(remove) = {}
        /\ NamesOf(keep) \cap NamesOf(remove) = {}
        /\ Len(excluded) + Len(keep) + Len(remove) = Cardinality(DOMAIN disk0)

\* C3's case: a completed run with a file in each group, one of them marked
\* by both limiters.
C3_Witness ==
    /\ pc = "done"
    /\ excluded # <<>>
    /\ keep # <<>>
    /\ \E i \in 1..Len(remove) : Len(remove[i].prune_reasons) = 2

\* C4: a run with --dry-run deletes nothing, so the run after it starts on
\* the same directory, and that run, with --dry-run or without it, has the
\* same groups, orderby values and reasons as the dry run.
C4_DryRunOnlySkipsDelete ==
    /\ args.dry_run => disk = disk0 /\ io.unlinked = {}
    /\ (run = 2 /\ prev[1].dry_run) =>
          /\ disk0 = prev[1].disk0
          /\ Partitioned => Outcome = prev[1].outcome

\* C4's case: after a dry run that reported files to remove, the same
\* command without --dry-run has deleted them.
C4_Witness ==
    /\ run = 2
    /\ prev[1].dry_run
    /\ ~args.dry_run
    /\ pc = "done"
    /\ io.unlinked # {}
    /\ Outcome = prev[1].outcome

\* C5: with a keep-count that is not positive, a keep-size that does not
\* parse, or both patterns given, the command goes from its start to exit
\* status 1 and nowhere else: the directory is not listed, no size is read,
\* no file is deleted.
C5_RejectedBeforeIO ==
    BadArgs =>
        /\ pc \in {"start", "exit1"}
        /\ io = NoIO
        /\ disk = disk0
        /\ files = <<>>

\* C5's case: the command has ended with exit status 1 on a directory that
\* holds files, with a valid keep-count beside an invalid keep-size.
C5_Witness ==
    /\ pc = "exit1"
    /\ DOMAIN disk # {}
    /\ args.keep_count # None
    /\ args.keep_count[1] > 0
    /\ args.keep_size # None
    /\ ParseSize(args.keep_size[1]) = None

C7_CountThenSize ==
    (PostSort /\ Len(limiters) = 2) =>
        /\ li = 2 => \A i \in 1..Len(files) :
               files[i].prune_reasons =
                   (IF CountAlone(i) THEN <<TheCountReason>> ELSE <<>>)
        /\ li = 3 => \A i \in 1..Len(files) :
               files[i].prune_reasons =
                   (IF CountAlone(i) THEN <<TheCountReason>> ELSE <<>>)
                   \o (IF SizeAlone(i) THEN <<TheSizeReason>> ELSE <<>>)
        /\ Partitioned =>
               /\ NamesOf(remove) =
                      {files[i].name : i \in {j \in 1..Len(files) :
                                                CountAlone(j) \/ SizeAlone(j)}}
               /\ \A i \in 1..Len(remove) :
                      Times(remove[i], TheCountReason) > 0 =>
                          remove[i].prune_reasons[1] = TheCountReason

\* C7's case: one file marked by both limiters, one by the size limiter
\* only, one by none.
C7_Witness ==
    /\ Partitioned
    /\ Len(limiters) = 2
    /\ \E i \in 1..Len(files) : files[i].prune_reasons = <<TheCountReason, TheSizeReason>>
    /\ \E i \in 1..Len(files) : files[i].prune_reasons = <<TheSizeReason>>
    /\ keep # <<>>

\* C8: the excluded files are the files whose whole name the configured
\* pattern does not match (none without a matcher); an excluded file is in
\* no list a limiter sees, has no size read, no reason, is in neither the
\* keep nor the remove group, and stays on the disk.
C8_ExcludedUntouched ==
    (PostSort \/ pc = "sort") =>
        /\ NamesOf(excluded) = {n \in DOMAIN disk0 : ShouldExclude(n)}
        /\ NamesOf(files) = {n \in DOMAIN disk0 : ~ShouldExclude(n)}
        /\ Len(files) = Cardinality(NamesOf(files))
        /\ \A i \in 1..Len(files) : files[i].is_match
        /\ \A i \in 1..Len(excluded) :
              /\ ~excluded[i].is_match
              /\ excluded[i].prune_reasons = <<>>
              /\ excluded[i].size = None
              /\ excluded[i].name \notin io.statted \cup io.unlinked
              /\ excluded[i].name \notin NamesOf(keep) \cup NamesOf(remove)
              /\ excluded[i].name \in DOMAIN disk

\* C8's case: a completed run that excluded a file, read sizes and deleted
\* a file, with a name that matches only without case.
C8_Witness ==
    /\ pc = "done"
    /\ excluded # <<>>
    /\ io.statted # {}
    /\ io.unlinked # {}
    /\ \E i \in 1..Len(files) : files[i].name[Len(files[i].name)] = Ch.L

\* C9: a run on the same directory as the run before it, whatever the two
\* orders of the directory listing, has the same groups with the same
\* orderby values; and after the sort, files of equal orderby stand in
\* ascending order of name, with and without order-reverse.
C9_ListingOrderIrrelevant ==
    /\ (run = 2 /\ disk0 = prev[1].disk0 /\ Partitioned) =>
           Outcome = prev[1].outcome
    /\ PostSort =>
           \A i, j \in 1..Len(files) :
               (i < j /\ files[i].orderby = files[j].orderby) =>
                   StrLess(files[i].name, files[j].name)

\* C9's case: two completed runs on one directory, one listing in name
\* order and one not, with order-reverse and two files of equal orderby.
C9_Witness ==
    /\ run = 2
    /\ pc = "done"
    /\ disk0 = prev[1].disk0
    /\ prev[1].inorder # inorder
    /\ args.order_reverse
    /\ remove # <<>>
    /\ \E i, j \in 1..Len(files) : i # j /\ files[i].orderby = files[j].orderby

\* C10: after a run without --dry-run in which every deletion succeeded, the
\* same command on the directory it left deletes nothing, has an empty
\* remove group, and keeps what the first run kept.
C10_SecondRunRemovesNothing ==
    (run = 2 /\ ~prev[1].dry_run) =>
        /\ pc \notin {"remove", "unlink_raised"}
        /\ io.unlinked = {}
        /\ disk = disk0
        /\ pc = "done" => remove = <<>> /\ Reports(keep) = prev[1].outcome.keep

\* C10's case: the first run deleted files under both limiters, and the
\* second run has completed with files kept.
C10_Witness ==
    /\ run = 2
    /\ ~prev[1].dry_run
    /\ pc = "done"
    /\ prev[1].outcome.remove # <<>>
    /\ Len(limiters) = 2
    /\ keep # <<>>

====
